---- MODULE Spec2Model ----
(***************************************************************************)
(* A model of tfe.py, the tkinter tar file explorer: the path index built  *)
(* by TarFileExplorer.__init__ and the handlers dbl_click_listbox,         *)
(* click_listbox, extract_selection and on_close.                          *)
(*                                                                         *)
(* Strings are sequences of one-character strings, so that split, join,    *)
(* slicing, lower() and the ordering used by sorted() are computed, not    *)
(* assumed.  Member names of one archive are pairwise distinct.            *)
(***************************************************************************)
EXTENDS Integers, Sequences, FiniteSets, TLC

VARIABLES
    tar_root,                 \* the archive: member name -> isfile()
    tar_files_pathes,         \* local of __init__: getnames(), then its sorted copy
    tree_dict,                \* the path index, a defaultdict(list)
    tmpdir,                   \* the TemporaryDirectory and the files staged in it
    current_path,
    opened_at_least_one_tmp,
    window,                   \* "none", "open" or "destroyed"
    listbox,                  \* the items the listbox shows, in order
    cv,                       \* what the canvas shows
    pc,                       \* "start", "failed", "idle", "extracting" or "closed"
    recursive_extract,        \* local of extract_selection: the to-visit queue
    came_from,                \* the latest navigation: the entry entered, and the
                              \* directory and listing it was entered from
    event,                    \* the handler running or last run, with its inputs
    calls                     \* the collaborator calls that handler has made so far

vars == <<tar_root, tar_files_pathes, tree_dict, tmpdir, current_path,
          opened_at_least_one_tmp, window, listbox, cv, pc,
          recursive_extract, came_from, event, calls>>

-----------------------------------------------------------------------------
(* Bounds *)

\* the largest number of members of an archive
MaxMembers == 4

-----------------------------------------------------------------------------
(* Strings *)

DELIMITER == "/"

\* the entry the explorer shows for the parent directory
PARENT == <<".", ".">>

\* the code point of a character: Python compares str by code point
Ord(c) ==
    CASE c = "." -> 46 [] c = "/" -> 47
      [] c = "B" -> 66 [] c = "G" -> 71 [] c = "N" -> 78 [] c = "P" -> 80
      [] c = "a" -> 97 [] c = "b" -> 98 [] c = "c" -> 99 [] c = "d" -> 100
      [] c = "e" -> 101 [] c = "g" -> 103 [] c = "n" -> 110 [] c = "p" -> 112
      [] c = "t" -> 116 [] c = "x" -> 120

\* str < str
RECURSIVE StrLess(_, _)
StrLess(a, b) ==
    IF b = <<>> THEN FALSE
    ELSE IF a = <<>> THEN TRUE
    ELSE IF a[1] # b[1] THEN Ord(a[1]) < Ord(b[1])
    ELSE StrLess(Tail(a), Tail(b))

\* (str, str) < (str, str), the order of the tuples sorted() compares
TupleLess(s, t) ==
    IF s[1] # t[1] THEN StrLess(s[1], t[1]) ELSE StrLess(s[2], t[2])

\* str.split(d)
RECURSIVE split(_, _)
split(s, d) ==
    IF \E i \in 1..Len(s) : s[i] = d
    THEN LET i == CHOOSE j \in 1..Len(s) :
                      s[j] = d /\ \A k \in 1..(j - 1) : s[k] # d
         IN  <<SubSeq(s, 1, i - 1)>> \o split(SubSeq(s, i + 1, Len(s)), d)
    ELSE <<s>>

\* d.join(L)
RECURSIVE join(_, _)
join(d, L) ==
    IF L = <<>> THEN <<>>
    ELSE IF Len(L) = 1 THEN L[1]
    ELSE L[1] \o <<d>> \o join(d, Tail(L))

\* L[:-1]
ButLast(L) == SubSeq(L, 1, Len(L) - 1)

\* DELIMITER.join(p.split(DELIMITER)[:-1]); the variant slices [1:]
ParentDropsFirst(p) == join(DELIMITER, Tail(split(p, DELIMITER)))
Parent(p) == join(DELIMITER, ButLast(split(p, DELIMITER)))

\* p.split(DELIMITER)[-1]; the variant takes [0]
BaseNameFirst(p) == split(p, DELIMITER)[1]
BaseName(p) == LET L == split(p, DELIMITER) IN L[Len(L)]

\* s[-n:]
Suffix(s, n) == IF Len(s) <= n THEN s ELSE SubSeq(s, Len(s) - n + 1, Len(s))

\* s.lower()
LowerChar(c) ==
    CASE c = "B" -> "b" [] c = "G" -> "g" [] c = "N" -> "n" [] c = "P" -> "p"
      [] OTHER -> c
lower(s) == [i \in 1..Len(s) |-> LowerChar(s[i])]

\* sorted(L) for a list of tuples
RECURSIVE Insert(_, _)
Insert(x, L) ==
    IF L = <<>> THEN <<x>>
    ELSE IF TupleLess(x, L[1]) THEN <<x>> \o L
    ELSE <<L[1]>> \o Insert(x, Tail(L))

\* the variant leaves the list in the order given
unsorted(L) == L
RECURSIVE sorted(_)
sorted(L) == IF L = <<>> THEN <<>> ELSE Insert(L[1], sorted(Tail(L)))

Range(L) == {L[i] : i \in DOMAIN L}

-----------------------------------------------------------------------------
(* The defaultdict(lambda: []) *)

\* the value of d[k]
defaultdict_getitem(d, k) == IF k \in DOMAIN d THEN d[k] ELSE <<>>

\* d after d[k] was evaluated: a missing key is inserted with []
defaultdict_missing(d, k) ==
    IF k \in DOMAIN d THEN d ELSE [x \in DOMAIN d \cup {k} |->
                                      IF x = k THEN <<>> ELSE d[x]]

\* d after d[k].append(v)
defaultdict_append(d, k, v) ==
    [x \in DOMAIN d \cup {k} |->
        IF x = k THEN Append(defaultdict_getitem(d, k), v) ELSE d[x]]

-----------------------------------------------------------------------------
(* The archives *)

P_a   == <<"a">>
P_ab  == <<"a", "/", "b", ".", "p", "n", "g">>
P_ac  == <<"a", "/", "c", ".", "t", "x", "t">>
P_ae  == <<"a", "/", "e">>
P_aec == <<"a", "/", "e", "/", "c", ".", "t", "x", "t">>
P_d   == <<"d", ".", "t", "x", "t">>

MemberNames == {P_a, P_ab, P_ac, P_ae, P_aec, P_d}

\* p is a proper ancestor of q
IsAncestor(p, q) ==
    /\ Len(p) < Len(q)
    /\ SubSeq(q, 1, Len(p)) = p
    /\ q[Len(p) + 1] = DELIMITER

\* an archive: its members and which of them are regular files; a member
\* with members below it is not a regular file
Archives ==
    UNION { { f \in [S -> BOOLEAN] :
                \A p \in S : (\E q \in S : IsAncestor(p, q)) => ~f[p] }
            : S \in { T \in SUBSET MemberNames : Cardinality(T) <= MaxMembers } }

\* the orders in which getnames() may report the members of archive f
Orders(f) ==
    { L \in [1..Cardinality(DOMAIN f) -> DOMAIN f] :
        \A i, j \in DOMAIN L : i # j => L[i] # L[j] }

-----------------------------------------------------------------------------
(* The program *)

\* the smallest side, in pixels, the display space may not have
DisplayMin == 50

\* the canvas sizes a click may find: at the limit and just above it
CanvasSizes == {DisplayMin, DisplayMin + 1}

\* tmpdir.name
TmpName == <<"/", "t">>

NoNavigation == [selection |-> <<>>, current_path |-> <<>>, listbox |-> <<>>]

NoEvent == [handler |-> "none", selection |-> <<>>, canvas |-> <<>>, branch |-> "none"]

Init ==
    /\ tar_root \in Archives
    /\ tar_files_pathes \in Orders(tar_root)
    /\ tree_dict = <<>>
    /\ tmpdir = [state |-> "none", files |-> <<>>]
    /\ current_path = <<>>
    /\ opened_at_least_one_tmp = FALSE
    /\ window = "none"
    /\ listbox = <<>>
    /\ cv = [shows |-> "nothing", image |-> <<>>]
    /\ pc = "start"
    /\ recursive_extract = <<>>
    /\ came_from = NoNavigation
    /\ event = NoEvent
    /\ calls = <<>>

\* the loop filling tree_dict from the sorted (path, parent) tuples
RECURSIVE tree_fill(_, _)
tree_fill(d, L) ==
    IF L = <<>> THEN d
    ELSE tree_fill(defaultdict_append(d, L[1][2], L[1][1]), Tail(L))

\* the listbox after populate(L); the variant inserts each item at the top
populate_at_top(L) == [i \in 1..Len(L) |-> L[Len(L) + 1 - i]]
populate(L) == L

\* the list dbl_click_listbox shows for directory path; the variants show
\* the parent marker at root too, and the base names instead of the paths
listing_always_parent(d, path) == <<PARENT>> \o defaultdict_getitem(d, path)
listing_basenames(d, path) ==
    (IF path # <<>> THEN <<PARENT>> ELSE <<>>)
        \o [i \in DOMAIN defaultdict_getitem(d, path) |->
               BaseName(defaultdict_getitem(d, path)[i])]
listing(d, path) ==
    (IF path # <<>> THEN <<PARENT>> ELSE <<>>) \o defaultdict_getitem(d, path)

__init__ ==
    /\ pc = "start"
    /\ LET tar_parents == [i \in DOMAIN tar_files_pathes |->
                              Parent(tar_files_pathes[i])]
           zipped == [i \in DOMAIN tar_files_pathes |->
                          <<tar_files_pathes[i], tar_parents[i]>>]
           srt == sorted(zipped)
       IN  IF srt = <<>>
           THEN \* zip(*[]) yields nothing to unpack: ValueError
                /\ pc' = "failed"
                /\ UNCHANGED <<tar_files_pathes, tree_dict, tmpdir, current_path,
                               opened_at_least_one_tmp, window, listbox>>
           ELSE LET built == tree_fill(<<>>, srt)
                IN  /\ tar_files_pathes' = [i \in DOMAIN srt |-> srt[i][1]]
                    /\ tree_dict' = defaultdict_missing(built, <<>>)
                    /\ tmpdir' = [state |-> "alive", files |-> <<>>]
                    /\ current_path' = <<>>
                    /\ opened_at_least_one_tmp' = FALSE
                    /\ window' = "open"
                    /\ listbox' = populate(defaultdict_getitem(built, <<>>))
                    /\ pc' = "idle"
    /\ event' = [NoEvent EXCEPT !.handler = "__init__"]
    /\ UNCHANGED <<tar_root, cv, recursive_extract, came_from, calls>>

\* what open(filepath, 'wb') truncates: the member the file at filepath held,
\* '' when there was no such file
held(files, filepath) ==
    IF filepath \in DOMAIN files THEN files[filepath] ELSE <<>>

\* the files of the temporary directory after filepath was written
staged_keeps_existing(files, filepath, content) ==
    IF filepath \in DOMAIN files
    THEN files
    ELSE [x \in DOMAIN files \cup {filepath} |->
             IF x = filepath THEN content ELSE files[x]]
staged(files, filepath, content) ==
    [x \in DOMAIN files \cup {filepath} |->
        IF x = filepath THEN content ELSE files[x]]

\* the directory the parent marker leads to from path; the variant leads
\* to the root
go_back_to_root(path) == <<>>
go_back(path) == Parent(path)

\* dbl_click_listbox; the variant sets the flag before it looks at the
\* selection
dbl_click_listbox_sets_flag_first(selection) ==
    /\ pc = "idle"
    /\ selection \in Range(listbox)
    /\ event' = [NoEvent EXCEPT !.handler = "dbl_click_listbox",
                                !.selection = selection]
    /\ IF selection # PARENT /\ tar_root[selection]
       THEN LET filepath == TmpName \o <<DELIMITER>> \o BaseName(selection)
            IN  /\ opened_at_least_one_tmp' = TRUE
                /\ tmpdir' = [tmpdir EXCEPT
                                 !.files = staged(@, filepath, selection)]
                /\ calls' = << <<"open", filepath, held(tmpdir.files, filepath)>>,
                               <<"extractfile", selection>>,
                               <<"system_viewer", filepath>> >>
                /\ UNCHANGED <<current_path, listbox, tree_dict, came_from>>
       ELSE LET target == IF selection = PARENT
                          THEN go_back(current_path)
                          ELSE selection
            IN  /\ current_path' = target
                /\ listbox' = populate(listing(tree_dict, target))
                /\ tree_dict' = defaultdict_missing(tree_dict, target)
                /\ came_from' = [selection |-> selection,
                                 current_path |-> current_path,
                                 listbox |-> listbox]
                /\ calls' = <<>>
                /\ opened_at_least_one_tmp' = TRUE
                /\ UNCHANGED tmpdir
    /\ UNCHANGED <<tar_root, tar_files_pathes, window, cv, pc, recursive_extract>>
dbl_click_listbox(selection) ==
    /\ pc = "idle"
    /\ selection \in Range(listbox)
    /\ event' = [NoEvent EXCEPT !.handler = "dbl_click_listbox",
                                !.selection = selection]
    /\ IF selection # PARENT /\ tar_root[selection]
       THEN LET filepath == TmpName \o <<DELIMITER>> \o BaseName(selection)
            IN  /\ opened_at_least_one_tmp' = TRUE
                /\ tmpdir' = [tmpdir EXCEPT
                                 !.files = staged(@, filepath, selection)]
                /\ calls' = << <<"open", filepath, held(tmpdir.files, filepath)>>,
                               <<"extractfile", selection>>,
                               <<"system_viewer", filepath>> >>
                /\ UNCHANGED <<current_path, listbox, tree_dict, came_from>>
       ELSE LET target == IF selection = PARENT
                          THEN go_back(current_path)
                          ELSE selection
            IN  /\ current_path' = target
                /\ listbox' = populate(listing(tree_dict, target))
                /\ tree_dict' = defaultdict_missing(tree_dict, target)
                /\ came_from' = [selection |-> selection,
                                 current_path |-> current_path,
                                 listbox |-> listbox]
                /\ calls' = <<>>
                /\ UNCHANGED <<opened_at_least_one_tmp, tmpdir>>
    /\ UNCHANGED <<tar_root, tar_files_pathes, window, cv, pc, recursive_extract>>

Min(a, b) == IF a <= b THEN a ELSE b

\* the return click_listbox leaves by; the variant compares the suffix
\* without lower()
preview_branch_case_sensitive(tar, selection, canvas_width, canvas_height) ==
    IF Min(canvas_height, canvas_width) <= DisplayMin THEN "too_small"
    ELSE IF selection = PARENT THEN "parent"
    ELSE IF ~tar[selection] THEN "directory"
    ELSE IF ~(\/ Suffix(selection, 4) \in
                    { <<".", "p", "n", "g">>, <<".", "t", "i", "f">>,
                      <<".", "j", "p", "g">> }
              \/ Suffix(selection, 5) \in
                    { <<".", "j", "p", "e", "g">>, <<".", "t", "i", "f", "f">>,
                      <<".", "w", "e", "b", "p">> })
         THEN "not_image"
    ELSE "image"
preview_branch(tar, selection, canvas_width, canvas_height) ==
    IF Min(canvas_height, canvas_width) <= DisplayMin THEN "too_small"
    ELSE IF selection = PARENT THEN "parent"
    ELSE IF ~tar[selection] THEN "directory"
    ELSE IF ~(\/ lower(Suffix(selection, 4)) \in
                    { <<".", "p", "n", "g">>, <<".", "t", "i", "f">>,
                      <<".", "j", "p", "g">> }
              \/ lower(Suffix(selection, 5)) \in
                    { <<".", "j", "p", "e", "g">>, <<".", "t", "i", "f", "f">>,
                      <<".", "w", "e", "b", "p">> })
         THEN "not_image"
    ELSE "image"

\* what the canvas shows when click_listbox returns by branch; the variant
\* draws the hint for the parent marker too
canvas_of_hint_on_parent(branch, selection) ==
    CASE branch = "too_small" ->
             [shows |-> "nothing", image |-> <<>>]
      [] branch \in {"parent", "directory", "not_image"} ->
             [shows |-> "text", image |-> <<>>]
      [] branch = "image" ->
             [shows |-> "image", image |-> selection]
canvas_of(branch, selection) ==
    CASE branch \in {"too_small", "parent"} ->
             [shows |-> "nothing", image |-> <<>>]
      [] branch \in {"directory", "not_image"} ->
             [shows |-> "text", image |-> <<>>]
      [] branch = "image" ->
             [shows |-> "image", image |-> selection]

click_listbox(selection, canvas_width, canvas_height) ==
    /\ pc = "idle"
    /\ selection \in Range(listbox)
    /\ LET branch == preview_branch(tar_root, selection, canvas_width, canvas_height)
       IN  /\ event' = [handler |-> "click_listbox", selection |-> selection,
                         canvas |-> <<canvas_width, canvas_height>>,
                         branch |-> branch]
           /\ cv' = canvas_of(branch, selection)
           /\ calls' = IF branch = "image"
                       THEN << <<"extractfile", selection>> >>
                       ELSE <<>>
    /\ UNCHANGED <<tar_root, tar_files_pathes, tree_dict, tmpdir, current_path,
                   opened_at_least_one_tmp, window, listbox, pc,
                   recursive_extract, came_from>>

\* extract_selection up to the while loop
extract_selection(selection) ==
    /\ pc = "idle"
    /\ selection \in Range(listbox)
    /\ event' = [NoEvent EXCEPT !.handler = "extract_selection",
                                !.selection = selection]
    /\ IF selection = PARENT
       THEN /\ calls' = <<>>
            /\ UNCHANGED <<pc, recursive_extract>>
       ELSE IF tar_root[selection]
       THEN /\ calls' = << <<"extract", selection>>,
                           <<"system_viewer", Parent(selection)>> >>
            /\ UNCHANGED <<pc, recursive_extract>>
       ELSE /\ recursive_extract' = <<selection>>
            /\ calls' = <<>>
            /\ pc' = "extracting"
    /\ UNCHANGED <<tar_root, tar_files_pathes, tree_dict, tmpdir, current_path,
                   opened_at_least_one_tmp, window, listbox, cv, came_from>>

\* the queue after one turn of the loop; the variant leaves the visited
\* path at the head
queue_after_keeps_head(queue, children) == queue \o children
queue_after(queue, children) == Tail(queue) \o children

\* one turn of the while loop of extract_selection
extract_loop ==
    /\ pc = "extracting"
    /\ Len(recursive_extract) # 0
    /\ LET s == recursive_extract[1]
       IN  /\ recursive_extract' =
                  queue_after(recursive_extract, defaultdict_getitem(tree_dict, s))
           /\ calls' = Append(calls, <<"extract", s>>)
           /\ tree_dict' = defaultdict_missing(tree_dict, s)
    /\ UNCHANGED <<tar_root, tar_files_pathes, tmpdir, current_path,
                   opened_at_least_one_tmp, window, listbox, cv, pc,
                   came_from, event>>

\* extract_selection after the while loop
extract_done ==
    /\ pc = "extracting"
    /\ Len(recursive_extract) = 0
    /\ calls' = Append(calls, <<"system_viewer", event.selection>>)
    /\ pc' = "idle"
    /\ UNCHANGED <<tar_root, tar_files_pathes, tree_dict, tmpdir, current_path,
                   opened_at_least_one_tmp, window, listbox, cv,
                   recursive_extract, came_from, event>>

\* whether on_close goes on to close, and the calls it made to decide; the
\* variants never ask, and ask but close whatever the answer
close_decision_never_asks(opened, answer) == [close |-> TRUE, calls |-> <<>>]
close_decision_ignores_answer(opened, answer) ==
    IF ~opened THEN [close |-> TRUE, calls |-> <<>>]
    ELSE [close |-> TRUE, calls |-> << <<"askokcancel", answer>> >>]
close_decision(opened, answer) ==
    IF ~opened THEN [close |-> TRUE, calls |-> <<>>]
    ELSE [close |-> answer, calls |-> << <<"askokcancel", answer>> >>]

\* tmpdir after tmpdir.cleanup(); the variant leaves it as it is
cleanup_forgotten(t) == t
cleanup(t) == [state |-> "cleaned", files |-> <<>>]

\* on_close; answer is what the user answers when asked
on_close(answer) ==
    /\ pc = "idle"
    /\ event' = [NoEvent EXCEPT !.handler = "on_close"]
    /\ LET d == close_decision(opened_at_least_one_tmp, answer)
       IN  IF d.close
           THEN /\ tmpdir' = cleanup(tmpdir)
                /\ window' = "destroyed"
                /\ pc' = "closed"
                /\ calls' = d.calls \o << <<"cleanup">>, <<"destroy">> >>
           ELSE /\ calls' = d.calls
                /\ UNCHANGED <<tmpdir, window, pc>>
    /\ UNCHANGED <<tar_root, tar_files_pathes, tree_dict, current_path,
                   opened_at_least_one_tmp, listbox, cv, recursive_extract,
                   came_from>>

Next ==
    \/ __init__
    \/ \E selection \in Range(listbox) : dbl_click_listbox(selection)
    \/ \E selection \in Range(listbox) :
           \E canvas_width \in CanvasSizes, canvas_height \in CanvasSizes :
               click_listbox(selection, canvas_width, canvas_height)
    \/ \E selection \in Range(listbox) : extract_selection(selection)
    \/ extract_loop
    \/ extract_done
    \/ \E answer \in BOOLEAN : on_close(answer)

Spec == Init /\ [][Next]_vars

\* a handler that has started runs to its end: the while loop of
\* extract_selection and the statement after it are straight-line code of
\* one callback
FairSpec == Spec /\ WF_vars(extract_loop) /\ WF_vars(extract_done)

-----------------------------------------------------------------------------
(* Notions the properties are stated in, defined apart from the program *)

\* the position of the last c in s, 0 when there is none
LastIndexOf(s, c) ==
    IF \E i \in 1..Len(s) : s[i] = c
    THEN CHOOSE i \in 1..Len(s) : s[i] = c /\ \A k \in (i + 1)..Len(s) : s[k] # c
    ELSE 0

\* the path with its last segment removed
WithoutLastSegment(p) == SubSeq(p, 1, LastIndexOf(p, DELIMITER) - 1)

\* the path has a single segment
SingleSegment(p) == LastIndexOf(p, DELIMITER) = 0

\* the member paths of the archive
Members == DOMAIN tar_root

\* construction has completed
Constructed == pc \in {"idle", "extracting", "closed"}

\* the arguments of the calls to collaborator op, in order
RECURSIVE ArgsOf(_, _)
ArgsOf(op, log) ==
    IF log = <<>> THEN <<>>
    ELSE (IF log[1][1] = op THEN <<log[1][2]>> ELSE <<>>) \o ArgsOf(op, Tail(log))

\* how many times x occurs in L
Count(x, L) == Cardinality({i \in DOMAIN L : L[i] = x})

-----------------------------------------------------------------------------
(* C1 *)

\* C1: once the index is built, each member path is in the bucket keyed by
\* the path without its last segment and in no other bucket, and the root
\* bucket (key = empty string) holds exactly the single-segment members.
C1_EachMemberInItsParentBucket ==
    Constructed =>
        /\ \A p \in Members :
              /\ WithoutLastSegment(p) \in DOMAIN tree_dict
              /\ \A k \in DOMAIN tree_dict :
                    p \in Range(tree_dict[k]) <=> k = WithoutLastSegment(p)
        /\ <<>> \in DOMAIN tree_dict
        /\ Range(tree_dict[<<>>]) = {p \in Members : SingleSegment(p)}

\* C1 witness: an index was built for an archive with members at three depths
C1_Witness ==
    /\ pc = "idle"
    /\ event.handler = "__init__"
    /\ {P_a, P_ae, P_aec, P_d} = Members
    /\ Cardinality(DOMAIN tree_dict) = 3

-----------------------------------------------------------------------------
(* C2 *)

\* C2: for an archive with zero members construction succeeds and yields an
\* index whose root entry (key = empty string) is an empty list.
C2_EmptyArchiveBuilds ==
    (Members = {} /\ pc # "start") =>
        /\ pc = "idle"
        /\ <<>> \in DOMAIN tree_dict
        /\ tree_dict[<<>>] = <<>>

-----------------------------------------------------------------------------
(* C3 *)

\* the members below directory d
Descendants(d) == {q \in Members : IsAncestor(d, q)}

\* extract_selection has run to its end on a directory
WalkDone ==
    /\ pc = "idle"
    /\ event.handler = "extract_selection"
    /\ event.selection # PARENT
    /\ ~tar_root[event.selection]

\* the members the handler has extracted to disk, in order
Extracted == ArgsOf("extract", calls)

\* C3: when Extract selection has run on a directory, the selected directory
\* and every member below it were extracted exactly once, and each directory
\* was extracted before any of its children.
C3_WalkExtractsEveryDescendantOnce ==
    WalkDone =>
        /\ \A p \in {event.selection} \cup Descendants(event.selection) :
              Count(p, Extracted) = 1
        /\ \A i, j \in DOMAIN Extracted :
              WithoutLastSegment(Extracted[j]) = Extracted[i] => i < j

-----------------------------------------------------------------------------
(* C4 *)

\* this step is dbl_click_listbox on selection
DblClickStep(selection) ==
    /\ pc = "idle"
    /\ vars' # vars
    /\ event'.handler = "dbl_click_listbox"
    /\ event'.selection = selection

\* the explorer shows a directory it entered from the root listing and has
\* not navigated since
EnteredFromRoot ==
    /\ pc = "idle"
    /\ came_from.current_path = <<>>
    /\ came_from.selection = current_path
    /\ current_path # <<>>
    /\ current_path \in Range(came_from.listbox)

\* C4: from the root listing, entering a subdirectory shown in it and then
\* entering the parent marker leaves current_path at root and the listing
\* equal to the root listing it started from (same entries, same order, no
\* parent marker).
C4_RoundTrip ==
    [][(EnteredFromRoot /\ DblClickStep(PARENT)) =>
           /\ current_path' = <<>>
           /\ listbox' = came_from.listbox
           /\ PARENT \notin Range(listbox')]_vars

\* C4 witness: the parent marker was entered from a directory of the root
\* listing, which holds two entries
C4_Witness ==
    /\ event.handler = "dbl_click_listbox"
    /\ event.selection = PARENT
    /\ came_from.selection = PARENT
    /\ came_from.current_path = P_a
    /\ listbox = <<P_a, P_d>>

-----------------------------------------------------------------------------
(* C5 *)

\* the suffix of a name: from its last dot on, empty when it has no dot
NameSuffix(s) ==
    IF LastIndexOf(s, ".") = 0 THEN <<>>
    ELSE SubSeq(s, LastIndexOf(s, "."), Len(s))

\* (is-parent-marker, is-file, lowercase suffix) of a selection
PreviewTriple(tar, selection) ==
    << selection = PARENT,
       selection # PARENT /\ tar[selection],
       lower(NameSuffix(selection)) >>

\* the display space is too small to show anything
TooSmall(canvas) == Min(canvas[1], canvas[2]) <= DisplayMin

\* names a selection may have, beyond those of the archives explored
PreviewNames ==
    MemberNames \cup
    { <<"B", ".", "P", "N", "G">>, <<"b", ".", "p", "n", "g">>,
      <<"p", "n", "g">>, <<"a", ".", "p", "n", "g", "/", "b">>,
      <<"x", ".", "t", "i", "f">>, <<"x", ".", "t", "i", "f", "f">>,
      <<"x", ".", "j", "p", "g">>, <<"x", ".", "j", "p", "e", "g">>,
      <<"x", ".", "w", "e", "b", "p">>, <<"x", ".", "e", "b", "p">>,
      <<".", "p", "n", "g">>, <<"x", ".", "t", "x", "t">> }

\* the previews there are: a selection, its file flag and the canvas size,
\* each with its triple and whether its display space is too small
PreviewCases ==
    UNION { { [tar |-> t, selection |-> n, canvas |-> <<w, h>>,
               triple |-> PreviewTriple(t, n), small |-> TooSmall(<<w, h>>)] :
                t \in [{n} -> BOOLEAN],
                w \in CanvasSizes, h \in CanvasSizes }
            : n \in PreviewNames \cup {PARENT} }

\* C5 as stated: the mode Preview selection chooses is determined by
\* (is-parent-marker, is-file, lowercase suffix) alone: any preview that
\* agrees on that triple with the one just made chooses the same mode.
C5_ModeDeterminedByTriple ==
    event.handler = "click_listbox" =>
        LET triple == PreviewTriple(tar_root, event.selection)
        IN  \A i \in PreviewCases :
                i.triple = triple
                => preview_branch(i.tar, i.selection, i.canvas[1], i.canvas[2])
                       = event.branch

\* C5 amended: the mode Preview selection chooses is determined by whether
\* the display space is too small (its smaller side at most 50 pixels)
\* together with (is-parent-marker, is-file, lowercase suffix): any preview
\* that agrees on these with the one just made chooses the same mode.
C5_ModeDeterminedByTripleAndSize ==
    event.handler = "click_listbox" =>
        LET triple == PreviewTriple(tar_root, event.selection)
            small == TooSmall(event.canvas)
        IN  \A i \in PreviewCases :
                (i.small = small /\ i.triple = triple)
                => preview_branch(i.tar, i.selection, i.canvas[1], i.canvas[2])
                       = event.branch

\* C5 witness: an image file was previewed on a display large enough
C5_Witness ==
    /\ event.handler = "click_listbox"
    /\ event.selection = P_ab
    /\ ~TooSmall(event.canvas)
    /\ event.branch = "image"
    /\ cv = [shows |-> "image", image |-> P_ab]

-----------------------------------------------------------------------------
(* C6 *)

\* this step is on_close
CloseStep ==
    /\ pc = "idle"
    /\ vars' # vars
    /\ event'.handler = "on_close"

\* a quick-view file was opened during the session: it is staged
QuickViewOpened == DOMAIN tmpdir.files # {}

\* the answers given to the prompts of the handler
Prompts(log) == ArgsOf("askokcancel", log)

\* C6: when no quick-view file was opened, on_close asks nothing, tears the
\* staging area down and closes the window; when one was opened, on_close
\* asks once, and tears the staging area down and closes the window exactly
\* when the user confirms.
C6_ClosePromptsOnlyAfterQuickView ==
    [][CloseStep =>
          IF ~QuickViewOpened
          THEN /\ Prompts(calls') = <<>>
               /\ tmpdir'.state = "cleaned"
               /\ window' = "destroyed"
          ELSE /\ Len(Prompts(calls')) = 1
               /\ (window' = "destroyed") <=> Prompts(calls')[1]
               /\ (tmpdir'.state = "cleaned") <=> Prompts(calls')[1]
               /\ (window' = "open") <=> ~Prompts(calls')[1]]_vars

\* C6 witness: a session that opened a quick-view file was closed on
\* confirmation
C6_Witness ==
    /\ event.handler = "on_close"
    /\ opened_at_least_one_tmp
    /\ Prompts(calls) = <<TRUE>>
    /\ window = "destroyed"
    /\ tmpdir.state = "cleaned"

-----------------------------------------------------------------------------
(* C7 *)

\* C7: a declined close changes nothing: the window stays open, the staging
\* area and its files, current_path, the listing, the flag and all the rest
\* of the explorer are as before, and the explorer awaits the next action.
C7_DeclinedCloseIsNoOp ==
    [][(CloseStep /\ Prompts(calls') = <<FALSE>>) =>
          /\ window' = "open" /\ window = "open"
          /\ pc' = "idle"
          /\ UNCHANGED <<tmpdir, current_path, listbox,
                         opened_at_least_one_tmp, tree_dict, cv, tar_root,
                         recursive_extract>>]_vars

\* C7 witness: a close was declined with a file staged in a subdirectory
C7_Witness ==
    /\ event.handler = "on_close"
    /\ Prompts(calls) = <<FALSE>>
    /\ window = "open"
    /\ current_path # <<>>
    /\ DOMAIN tmpdir.files # {}

-----------------------------------------------------------------------------
(* C8 *)

\* C8: once built, the index never changes: no action changes the set of its
\* keys or the list stored under any key.
C8_IndexNeverMutated ==
    [][Constructed => tree_dict' = tree_dict]_vars

-----------------------------------------------------------------------------
(* C9 *)

\* the archive of the scenario: a/b.png, a/c.txt and d.txt, with the entry
\* of their directory a
ScenarioArchive == Members = {P_a, P_ab, P_ac, P_d}

-----------------------------------------------------------------------------
(* C10 *)

\* C10: whenever the session is closed the staging area has been torn down
\* and holds no file, and it is never torn down while the window is open.
C10_StagingReleasedExactlyOnClose ==
    /\ (pc = "closed" \/ window = "destroyed") =>
          (tmpdir.state = "cleaned" /\ DOMAIN tmpdir.files = {})
    /\ tmpdir.state = "cleaned" => window = "destroyed"
    /\ window = "open" => tmpdir.state = "alive"

\* C10 witness: a session with a staged file was closed
C10_Witness ==
    /\ pc = "closed"
    /\ opened_at_least_one_tmp
    /\ tmpdir = [state |-> "cleaned", files |-> <<>>]

-----------------------------------------------------------------------------
(* C11 *)

\* the index entry for path, in index order
IndexEntry(path) == IF path \in DOMAIN tree_dict THEN tree_dict[path] ELSE <<>>

\* C11: while the window is open, the displayed listing is the index entry
\* for current_path in index order, preceded by the parent marker exactly
\* when current_path is not root.
C11_ListingShowsCurrentDirectory ==
    window = "open" =>
        /\ listbox = IF current_path = <<>>
                     THEN IndexEntry(<<>>)
                     ELSE <<PARENT>> \o IndexEntry(current_path)
        /\ (PARENT \in Range(listbox)) <=> (current_path # <<>>)

\* C11 witness: after entering two directories and a preview, the listing
\* of a/e is shown
C11_Witness ==
    /\ window = "open"
    /\ current_path = P_ae
    /\ event.handler = "click_listbox"
    /\ listbox = <<PARENT, P_aec>>

-----------------------------------------------------------------------------
(* C12 *)

\* the last segment of a path
LastSegment(p) == SubSeq(p, LastIndexOf(p, DELIMITER) + 1, Len(p))

\* the path in the staging area of a file staged under name
StagedAs(name) == TmpName \o <<DELIMITER>> \o name

\* this step is dbl_click_listbox on a file
EnterFileStep ==
    /\ pc = "idle"
    /\ vars' # vars
    /\ event'.handler = "dbl_click_listbox"
    /\ event'.selection # PARENT
    /\ tar_root[event'.selection]

\* C12: Enter selection on a file sets the flag, stages the file under its
\* base filename, and leaves current_path and the listing as they were.
C12_EnterFileStagesAndStays ==
    [][EnterFileStep =>
          /\ opened_at_least_one_tmp'
          /\ StagedAs(LastSegment(event'.selection)) \in DOMAIN tmpdir'.files
          /\ tmpdir'.files[StagedAs(LastSegment(event'.selection))]
                = event'.selection
          /\ UNCHANGED <<current_path, listbox>>]_vars

\* C12 witness: a/c.txt was opened from the listing of a
C12_Witness ==
    /\ event.handler = "dbl_click_listbox"
    /\ event.selection = P_ac
    /\ current_path = P_a
    /\ listbox = <<PARENT, P_ac, P_ae>>
    /\ opened_at_least_one_tmp
    /\ tmpdir.files[<<"/", "t", "/", "c", ".", "t", "x", "t">>] = P_ac

-----------------------------------------------------------------------------
(* C13 *)

\* a comes before b in lexicographic order of code points
LexLess(a, b) ==
    \E i \in 1..Len(b) :
        /\ i <= Len(a) + 1
        /\ \A k \in 1..(i - 1) : a[k] = b[k]
        /\ (i = Len(a) + 1 \/ Ord(a[i]) < Ord(b[i]))

\* the index __init__ builds when getnames() reports the members as names
IndexOf(names) ==
    defaultdict_missing(
        tree_fill(<<>>, sorted([i \in DOMAIN names |->
                                   <<names[i], Parent(names[i])>>])),
        <<>>)

\* C13: every bucket of the index lists its paths in ascending
\* lexicographic order, and the index built is the one every other order of
\* the same members yields.
C13_BucketsSortedWhateverTheOrder ==
    /\ Constructed =>
          \A k \in DOMAIN tree_dict :
              \A i, j \in DOMAIN tree_dict[k] :
                  i < j => LexLess(tree_dict[k][i], tree_dict[k][j])
    /\ (pc = "idle" /\ event.handler = "__init__") =>
          \A names \in Orders(tar_root) : IndexOf(names) = tree_dict

\* C13 witness: an index was built whose bucket a holds three paths
C13_Witness ==
    /\ pc = "idle"
    /\ event.handler = "__init__"
    /\ P_a \in DOMAIN tree_dict
    /\ tree_dict[P_a] = <<P_ab, P_ac, P_ae>>

-----------------------------------------------------------------------------
(* C14 *)

\* the paths the handler has opened the system viewer on, in order
Viewed == ArgsOf("system_viewer", calls)

\* C14: Extract selection on a directory invokes the viewer exactly once, on
\* the selected directory, as its last call and not before the selected
\* directory and every member below it have been extracted.
C14_ViewerOnceAfterAllExtracted ==
    /\ pc = "extracting" => Viewed = <<>>
    /\ WalkDone =>
          /\ Viewed = <<event.selection>>
          /\ calls[Len(calls)] = <<"system_viewer", event.selection>>
          /\ ({event.selection} \cup Descendants(event.selection))
                \subseteq Range(Extracted)

-----------------------------------------------------------------------------
(* C15 *)

\* this step is click_listbox
PreviewStep ==
    /\ pc = "idle"
    /\ vars' # vars
    /\ event'.handler = "click_listbox"

\* this step is extract_selection up to its loop
ExtractStep ==
    /\ pc = "idle"
    /\ vars' # vars
    /\ event'.handler = "extract_selection"

\* this step is a turn of the loop of extract_selection, or its end
WalkStep == pc = "extracting" /\ vars' # vars

\* C15 as stated: Preview selection and Extract selection leave
\* current_path, the listing and the flag as they were, and on the parent
\* marker each of them extracts nothing, invokes no viewer and leaves the
\* preview area showing what it showed.
C15_NonNavigatingAndParentNoOp ==
    [][(PreviewStep \/ ExtractStep \/ WalkStep) =>
          /\ UNCHANGED <<current_path, listbox, opened_at_least_one_tmp>>
          /\ (pc = "idle" /\ event'.selection = PARENT) =>
                /\ calls' = <<>>
                /\ pc' = "idle"
                /\ UNCHANGED <<tmpdir, tree_dict, recursive_extract>>
                /\ cv' = cv]_vars

\* C15 amended: Preview selection and Extract selection leave current_path,
\* the listing and the flag as they were; on the parent marker each of them
\* extracts nothing and invokes no viewer, Extract selection leaves the
\* preview area as it was, and Preview selection clears it.
C15_NonNavigatingAndParentClearsPreview ==
    [][(PreviewStep \/ ExtractStep \/ WalkStep) =>
          /\ UNCHANGED <<current_path, listbox, opened_at_least_one_tmp>>
          /\ (pc = "idle" /\ event'.selection = PARENT) =>
                /\ calls' = <<>>
                /\ pc' = "idle"
                /\ UNCHANGED <<tmpdir, tree_dict, recursive_extract>>
                /\ ExtractStep => cv' = cv
                /\ PreviewStep => cv' = [shows |-> "nothing", image |-> <<>>]]_vars

\* C15 witness: the parent marker was previewed on a display large enough
C15_Witness ==
    /\ event.handler = "click_listbox"
    /\ event.selection = PARENT
    /\ ~TooSmall(event.canvas)
    /\ current_path = P_a
    /\ cv.shows = "nothing"

-----------------------------------------------------------------------------
(* C16 *)

\* the number of segments of a path, 0 for the root
Depth(p) ==
    IF p = <<>> THEN 0
    ELSE 1 + Cardinality({i \in 1..Len(p) : p[i] = DELIMITER})

\* C16: current_path is the root or a member that is a directory; entering
\* the parent marker from a directory other than the root leads to its path
\* without the last segment, one segment shallower, so that a directory at
\* depth n is n parent markers away from the root, which alone has depth 0.
C16_CurrentPathIsDirectoryAndParentStripsSegment ==
    /\ [](Constructed =>
            /\ current_path = <<>>
                 \/ (current_path \in Members /\ ~tar_root[current_path])
            /\ Depth(current_path) = 0 <=> current_path = <<>>)
    /\ [][(DblClickStep(PARENT) /\ current_path # <<>>) =>
             /\ current_path' = WithoutLastSegment(current_path)
             /\ Depth(current_path') = Depth(current_path) - 1]_vars

\* C16 witness: the parent marker was entered at depth 2 and led to depth 1
C16_Witness ==
    /\ event.handler = "dbl_click_listbox"
    /\ event.selection = PARENT
    /\ came_from.current_path = P_ae
    /\ current_path = P_a

-----------------------------------------------------------------------------
(* C17 *)

\* C17: the flag is false when construction ends; once true it stays true;
\* it turns true only in a step that is Enter selection on a file; and it
\* is true only in a session in which a file was staged.
C17_FlagSetOnlyByEnterFile ==
    /\ []((pc = "idle" /\ event.handler = "__init__")
            => ~opened_at_least_one_tmp)
    /\ [](opened_at_least_one_tmp => (QuickViewOpened \/ pc = "closed"))
    /\ [][opened_at_least_one_tmp => opened_at_least_one_tmp']_vars
    /\ [][(~opened_at_least_one_tmp /\ opened_at_least_one_tmp')
             => EnterFileStep]_vars

\* C17 witness: with the flag set, the explorer went up a directory and a
\* close was declined
C17_Witness ==
    /\ opened_at_least_one_tmp
    /\ came_from.selection = PARENT
    /\ event.handler = "on_close"
    /\ window = "open"

-----------------------------------------------------------------------------
(* C18 *)

\* this step is one turn of the loop of the walk
LoopTurn == pc = "extracting" /\ recursive_extract # <<>> /\ vars' # vars

\* C18: every turn of the walk takes the head off the to-visit queue and
\* enqueues behind the rest only members that are children of the head, each
\* strictly longer than it; and a walk that has started empties the queue
\* and ends.
C18_WalkTerminates ==
    /\ [][LoopTurn =>
             LET s == recursive_extract[1]
                 rest == Len(recursive_extract) - 1
             IN  /\ Len(recursive_extract') >= rest
                 /\ SubSeq(recursive_extract', 1, rest) = Tail(recursive_extract)
                 /\ \A i \in (rest + 1)..Len(recursive_extract') :
                       LET c == recursive_extract'[i]
                       IN  /\ c \in Members
                           /\ WithoutLastSegment(c) = s
                           /\ Len(c) > Len(s)]_vars
    /\ (pc = "extracting") ~> (pc = "extracting" /\ recursive_extract = <<>>)
    /\ (pc = "extracting") ~> (pc = "idle")

\* C18 witness: a walk over a directory with a sub-directory has ended
C18_Witness ==
    /\ WalkDone
    /\ event.selection = P_a
    /\ recursive_extract = <<>>
    /\ Count(P_ae, Extracted) = 1
    /\ Count(P_aec, Extracted) = 1

-----------------------------------------------------------------------------
(* C19 *)

\* the file members that share their base filename with p
SameBaseName(p) ==
    {q \in Members : tar_root[q] /\ LastSegment(q) = LastSegment(p)}

\* C19: every staged file sits at the path made of the staging directory
\* and the base filename of the member it holds; Enter selection on a file
\* writes that one path and no other; and when the path held another member
\* of the same base filename, it holds the selected member afterwards and no
\* file was added.
C19_SameBaseNameSharesStagedPath ==
    /\ [](Constructed =>
            \A x \in DOMAIN tmpdir.files :
               /\ tmpdir.files[x] \in Members
               /\ x = StagedAs(LastSegment(tmpdir.files[x])))
    /\ [][EnterFileStep =>
             LET sel  == event'.selection
                 path == StagedAs(LastSegment(sel))
             IN  /\ tmpdir'.files[path] = sel
                 /\ DOMAIN tmpdir'.files = DOMAIN tmpdir.files \cup {path}
                 /\ \A x \in DOMAIN tmpdir.files \ {path} :
                       tmpdir'.files[x] = tmpdir.files[x]
                 /\ \A q \in SameBaseName(sel) \ {sel} :
                       (path \in DOMAIN tmpdir.files /\ tmpdir.files[path] = q)
                          => /\ DOMAIN tmpdir'.files = DOMAIN tmpdir.files
                             /\ \A x \in DOMAIN tmpdir'.files :
                                   tmpdir'.files[x] # q]_vars

\* C19 witness: a/e/c.txt was opened over the staged copy of a/c.txt
C19_Witness ==
    /\ event.handler = "dbl_click_listbox"
    /\ event.selection = P_aec
    /\ Len(calls) = 3
    /\ calls[1] = <<"open", StagedAs(LastSegment(P_aec)), P_ac>>
    /\ DOMAIN tmpdir.files = {StagedAs(LastSegment(P_ac))}
    /\ tmpdir.files[StagedAs(LastSegment(P_ac))] = P_aec

====
